---- MODULE Spec2Model ----
(***************************************************************************)
(* A model of the TSUtils helpers: the Result / ValidationFailure outcome  *)
(* type (src/src/result/result.ts), the Brazilian document and plate       *)
(* formatters (src/unnamed/part_003), StringUtils                          *)
(* (src/src/string/string-utils.ts) and the time converter of TimeUtils    *)
(* (src/src/time/time-utils.ts).                                           *)
(*                                                                         *)
(* JavaScript values are records tagged by t: [t |-> "undefined"],         *)
(* [t |-> "null"], [t |-> "boolean", v |-> b], [t |-> "array", v |-> s],   *)
(* [t |-> "string", v |-> chars], [t |-> "number", neg |-> b, v |-> ds].   *)
(* A formatter's string is the sequence of its characters, so that         *)
(* stripping, trimming and grouping are computed; the property names and   *)
(* messages of the Result component are opaque TLA+ strings.               *)
(***************************************************************************)
EXTENDS Integers, Sequences, FiniteSets, TLC

VARIABLES
    value,      \* the argument(s) of the call under study
    factory,    \* Result component: the factory that built `result` ("" before)
    result,     \* Result component: the Result object built by the factory
    fn,         \* the last operation invoked ("" before any)
    returned,   \* what the last operation returned
    codigoPlacaMercosul
                \* BrazilFormatUtils' private static Map<number, string>

vars == <<value, factory, result, fn, returned, codigoPlacaMercosul>>

----------------------------------------------------------------------------
(* Bounds *)

\* longest argument list handed to Result.False
MaxArgs == 2
\* most digits in a formatter's input (a CNPJ has 14)
MaxDigits == 14
\* most non-digit characters scattered through a formatter's input
MaxNonDigits == 2
\* number of callers whose calls interleave
MaxCallers == 2
\* longest string handed to the StringUtils methods
MaxStrLen == 3
\* largest number of seconds of the dense range handed to the time converter
MaxSegundos == 7325
\* most fields handed to FieldUtils.hasEmptyFields
MaxFields == 2
\* most items, nested arrays and their elements together, in flatMap's array
MaxItems == 5
\* largest whole part of the dense range of numbers handed to ToPrice
MaxInteiro == 120
\* most three-digit thousand groups in the strings handed to ToDecimal
MaxGroups == 2

----------------------------------------------------------------------------
(* JavaScript values *)

Undefined == [t |-> "undefined"]
Null == [t |-> "null"]
Bool(b) == [t |-> "boolean", v |-> b]
Array(s) == [t |-> "array", v |-> s]
\* a string value: v is the sequence of its characters
Str(chars) == [t |-> "string", v |-> chars]
\* an integer number value: v is its decimal expansion, most significant digit
\* first and without leading zeros (<<0>> for zero), and neg its sign
Num(neg, digits) == [t |-> "number", neg |-> neg, v |-> digits]

\* the state before any call: nothing built, nothing returned
NoResult == [t |-> "none"]

UpperLetters ==
    <<"A", "B", "C", "D", "E", "F", "G", "H", "I", "J", "K", "L", "M",
      "N", "O", "P", "Q", "R", "S", "T", "U", "V", "W", "X", "Y", "Z">>

\* the static initialiser of codigoPlacaMercosul: 0 -> 'A' ... 9 -> 'J'
CodigoPlacaMercosulInicial == [key \in 0..9 |-> UpperLetters[key + 1]]

----------------------------------------------------------------------------
(* src/src/result/result.ts *)

\* class ValidationFailure: constructor(propertyName, errorMessage)
ValidationFailure(propertyName, errorMessage) ==
    [propertyName |-> propertyName, errorMessage |-> errorMessage]

\* class Result: constructor(succeeded, data?, failures = [])
Result(succeeded, data, failures) ==
    [t |-> "Result", succeeded |-> succeeded, data |-> data, failures |-> failures]

\* an argument of Result.False: a ValidationFailure instance or a string
VFArg(propertyName, errorMessage) ==
    [t |-> "ValidationFailure", v |-> ValidationFailure(propertyName, errorMessage)]
StrArg(s) == [t |-> "string", v |-> s]

\* mutants of False
False_swapsFields(failures) ==
    Result(FALSE, Null,
           [i \in 1..Len(failures) |->
               IF failures[i].t = "ValidationFailure"
               THEN failures[i].v
               ELSE ValidationFailure("Invalid value", failures[i].v)])

IsVFArg(failure) == failure.t = "ValidationFailure"

False_dropsStrings(failures) ==
    Result(FALSE, Null,
           [i \in 1..Len(SelectSeq(failures, IsVFArg)) |->
               SelectSeq(failures, IsVFArg)[i].v])

\* static False(...failures): map each argument, then new Result(false, null, ...)
False(failures) ==
    LET validationFailures ==
            [i \in 1..Len(failures) |->
                IF failures[i].t = "ValidationFailure"
                THEN failures[i].v
                ELSE ValidationFailure(failures[i].v, "Invalid value")]
    IN  Result(FALSE, Null, validationFailures)

\* mutant of True
True_dropsData(args) == Result(TRUE, Null, <<>>)

\* static True(data?): new Result(true, data); an omitted data is undefined and
\* the constructor's failures parameter takes its default, []
True(args) ==
    LET data == IF Len(args) = 0 THEN Undefined ELSE args[1]
    IN  Result(TRUE, data, <<>>)

isSuccess(r) == r.succeeded

\* mutant of isFailure
isFailure_byErrors(r) == Len(r.failures) > 0

isFailure(r) == ~r.succeeded

getErrors(r) == r.failures

getData(r) == r.data

\* the arguments the model hands to the factories
PropertyNames == {"field", "email"}
FailureArgs ==
    {StrArg(p) : p \in PropertyNames}
        \cup {VFArg(p, m) : p \in PropertyNames, m \in {"Invalid value", "required"}}
DataValues == {Undefined, Null, Num(FALSE, <<0>>), Num(FALSE, <<7>>)}

RECURSIVE SeqsUpTo(_, _)
SeqsUpTo(S, n) ==
    IF n = 0 THEN {<<>>}
    ELSE LET shorter == SeqsUpTo(S, n - 1)
         IN  shorter \cup {Append(s, x) : s \in shorter, x \in S}

InitResult ==
    /\ value = <<>>
    /\ factory = ""
    /\ result = NoResult
    /\ fn = ""
    /\ returned = Undefined
    /\ codigoPlacaMercosul = CodigoPlacaMercosulInicial

\* the state follows one Result from its construction on
CallFalse ==
    \E failures \in SeqsUpTo(FailureArgs, MaxArgs) :
        /\ result = NoResult
        /\ value' = failures
        /\ factory' = "False"
        /\ result' = False(failures)
        /\ fn' = "False"
        /\ returned' = Undefined
        /\ UNCHANGED codigoPlacaMercosul

CallTrue ==
    \E args \in SeqsUpTo(DataValues, 1) :
        /\ result = NoResult
        /\ value' = args
        /\ factory' = "True"
        /\ result' = True(args)
        /\ fn' = "True"
        /\ returned' = Undefined
        /\ UNCHANGED codigoPlacaMercosul

CallIsSuccess ==
    /\ result.t = "Result"
    /\ fn' = "isSuccess"
    /\ returned' = Bool(isSuccess(result))
    /\ UNCHANGED <<value, factory, result, codigoPlacaMercosul>>

CallIsFailure ==
    /\ result.t = "Result"
    /\ fn' = "isFailure"
    /\ returned' = Bool(isFailure(result))
    /\ UNCHANGED <<value, factory, result, codigoPlacaMercosul>>

CallGetErrors ==
    /\ result.t = "Result"
    /\ fn' = "getErrors"
    /\ returned' = Array(getErrors(result))
    /\ UNCHANGED <<value, factory, result, codigoPlacaMercosul>>

CallGetData ==
    /\ result.t = "Result"
    /\ fn' = "getData"
    /\ returned' = getData(result)
    /\ UNCHANGED <<value, factory, result, codigoPlacaMercosul>>

NextResult ==
    \/ CallFalse
    \/ CallTrue
    \/ CallIsSuccess
    \/ CallIsFailure
    \/ CallGetErrors
    \/ CallGetData

SpecResult == InitResult /\ [][NextResult]_vars

----------------------------------------------------------------------------
(* Claims about Result (checked under SpecResult) *)

Built == result.t = "Result"

\* the data handed to Result.True: its argument, or undefined when omitted
GivenData == IF Len(value) = 0 THEN Undefined ELSE value[1]

\* the ValidationFailure that Result.False owes for its i-th argument
Owed(failure) ==
    IF failure.t = "string"
    THEN [propertyName |-> failure.v, errorMessage |-> "Invalid value"]
    ELSE failure.v

\* C1: every Result built by True or False, after any accessor calls, has
\* succeeded = true => failures empty, and succeeded = false => data is
\* undefined (getData() returns undefined).
C1_Invariant ==
    Built =>
        /\ result.succeeded => getErrors(result) = <<>>
        /\ ~result.succeeded => getData(result).t = "undefined"
        /\ (fn = "getData" /\ ~result.succeeded) => returned.t = "undefined"

\* C2: getErrors() of Result.False(args) has the length and order of args;
\* a string s became {propertyName: s, errorMessage: "Invalid value"}, a
\* ValidationFailure is unchanged; succeeded is false.
C2_FalseNormalises ==
    (Built /\ factory = "False") =>
        /\ result.succeeded = FALSE
        /\ Len(getErrors(result)) = Len(value)
        /\ \A i \in 1..Len(value) : getErrors(result)[i] = Owed(value[i])
        /\ fn = "getErrors" =>
              returned.v = [i \in 1..Len(value) |-> Owed(value[i])]

C2_Witness ==
    /\ Built /\ factory = "False" /\ fn = "getErrors"
    /\ Len(value) = 2
    /\ value[1].t = "string"
    /\ value[2].t = "ValidationFailure"
    /\ value[2].v.errorMessage = "required"
    /\ returned.v[1].propertyName = value[1].v

\* C3: Result.True(x), for every x and for no argument, has isSuccess() = true,
\* getErrors() = [] and getData() = x.
C3_TrueCarriesData ==
    (Built /\ factory = "True") =>
        /\ isSuccess(result) = TRUE
        /\ getErrors(result) = <<>>
        /\ getData(result) = GivenData
        /\ fn = "isSuccess" => returned.v = TRUE
        /\ fn = "getErrors" => returned.v = <<>>
        /\ fn = "getData" => returned = GivenData

C3_Witness ==
    /\ Built /\ factory = "True" /\ fn = "getData"
    /\ Len(value) = 1
    /\ value[1].t = "number"
    /\ value[1].v = <<7>>
    /\ returned.t = "number"

\* C4 as stated: every failure Result built by Result.False, the empty argument
\* list included, has a non-empty getErrors().
C4_FailureHasErrors ==
    (Built /\ factory = "False") =>
        /\ isFailure(result)
        /\ Len(getErrors(result)) >= 1

\* C4 amended: a failure built by Result.False has a non-empty getErrors()
\* exactly when one or more arguments were given; Result.False() with no argument
\* is a failure whose getErrors() is empty.
C4_FailureHasErrorsIffArgs ==
    (Built /\ factory = "False") =>
        /\ isFailure(result)
        /\ (Len(getErrors(result)) >= 1) <=> (Len(value) >= 1)
        /\ fn = "getErrors" => ((Len(returned.v) >= 1) <=> (Len(value) >= 1))

C4_Witness ==
    /\ Built /\ factory = "False" /\ fn = "getErrors"
    /\ value = <<>>
    /\ returned.v = <<>>
    /\ isFailure(result)

\* C5: isSuccess() and isFailure() are mutually exclusive and exhaustive:
\* isSuccess() is succeeded, isFailure() is its negation, exactly one is true.
C5_ExclusiveExhaustive ==
    Built =>
        /\ isSuccess(result) = result.succeeded
        /\ isFailure(result) = ~result.succeeded
        /\ isSuccess(result) # isFailure(result)
        /\ fn = "isSuccess" => returned.v = ~isFailure(result)
        /\ fn = "isFailure" => returned.v = ~isSuccess(result)

C5_Witness ==
    /\ Built /\ factory = "False" /\ fn = "isFailure"
    /\ value = <<>>
    /\ returned.v = TRUE
    /\ ~isSuccess(result)

----------------------------------------------------------------------------
(* src/src/string/string-utils.ts *)

\* StringUtils.Empty
Empty == <<>>

DigitChars == <<"0", "1", "2", "3", "4", "5", "6", "7", "8", "9">>

DigitValue(c) == CHOOSE d \in 0..9 : DigitChars[d + 1] = c

\* the regular expression classes [0-9] / \d and \s
IsDigit(c) == c \in {DigitChars[i] : i \in 1..10}
IsSpace(c) == c \in {" ", "\t", "\n", "\r"}

\* String.prototype.trim
RECURSIVE trimStart(_)
trimStart(s) ==
    IF s # <<>> /\ IsSpace(Head(s)) THEN trimStart(Tail(s)) ELSE s

RECURSIVE trimEnd(_)
trimEnd(s) ==
    IF s # <<>> /\ IsSpace(s[Len(s)]) THEN trimEnd(SubSeq(s, 1, Len(s) - 1)) ELSE s

trim(s) == trimEnd(trimStart(s))

\* mutant of isNullOrEmpty: the test without trim()
isNullOrEmpty_noTrim(val) ==
    \/ val.t = "undefined"
    \/ val.t = "null"
    \/ IF val.t = "string" THEN val.v = <<>> ELSE TRUE

\* mutant of isNullOrEmpty: the catch block answering false
isNullOrEmpty_catchReturnsFalse(val) ==
    \/ val.t = "undefined"
    \/ val.t = "null"
    \/ IF val.t = "string" THEN trim(val.v) = <<>> ELSE FALSE

\* isNullOrEmpty(value): undefined, null, or empty once trimmed; a value of
\* another type has no trim method, the call throws a TypeError and the catch
\* block returns true
isNullOrEmpty(val) ==
    \/ val.t = "undefined"
    \/ val.t = "null"
    \/ IF val.t = "string" THEN trim(val.v) = <<>> ELSE TRUE

\* extractNumericCharacters(value): value.replace(/[^0-9]/g, '')
extractNumericCharacters(chars) == SelectSeq(chars, IsDigit)

LowerLetters ==
    <<"a", "b", "c", "d", "e", "f", "g", "h", "i", "j", "k", "l", "m",
      "n", "o", "p", "q", "r", "s", "t", "u", "v", "w", "x", "y", "z">>

\* String.prototype.toUpperCase / toLowerCase on the letters a..z and A..Z;
\* any other character of the inputs used here has no case
toUpperCase(chars) ==
    [i \in 1..Len(chars) |->
        IF \E k \in 1..26 : LowerLetters[k] = chars[i]
        THEN UpperLetters[CHOOSE k \in 1..26 : LowerLetters[k] = chars[i]]
        ELSE chars[i]]

toLowerCase(chars) ==
    [i \in 1..Len(chars) |->
        IF \E k \in 1..26 : UpperLetters[k] = chars[i]
        THEN LowerLetters[CHOOSE k \in 1..26 : UpperLetters[k] = chars[i]]
        ELSE chars[i]]

\* String.prototype.charAt(index): '' when there is no such character
charAt(chars, index) ==
    IF index + 1 \in 1..Len(chars) THEN <<chars[index + 1]>> ELSE <<>>

\* String.prototype.slice(start), for 0 <= start
slice(chars, start) ==
    IF start >= Len(chars) THEN <<>> ELSE SubSeq(chars, start + 1, Len(chars))

\* mutant of capitalize: the rest of the string kept as it is
capitalize_keepsRest(val) ==
    IF val.t = "string"
    THEN toUpperCase(charAt(val.v, 0)) \o slice(val.v, 1)
    ELSE Empty

\* capitalize(value): value.charAt(0).toUpperCase() + value.slice(1).toLowerCase();
\* a value without charAt makes the call throw and the catch block returns Empty
capitalize(val) ==
    IF val.t = "string"
    THEN toUpperCase(charAt(val.v, 0)) \o toLowerCase(slice(val.v, 1))
    ELSE Empty

----------------------------------------------------------------------------
(* JavaScript built-ins used by the formatters *)

\* Number.prototype.toString of an integer: a minus sign for a negative number,
\* then one character per decimal digit
toString(n) ==
    (IF n.neg /\ n.v # <<0>> THEN <<"-">> ELSE <<>>)
        \o [i \in 1..Len(n.v) |-> DigitChars[n.v[i] + 1]]

RECURSIVE Sum(_)
Sum(widths) == IF widths = <<>> THEN 0 ELSE Head(widths) + Sum(Tail(widths))

\* where /(\d{w1})(\d{w2}).../ first matches in chars: the least index at which
\* w1 + w2 + ... consecutive digits start, 0 when there is none
MatchStart(chars, widths) ==
    LET total == Sum(widths)
        starts == {i \in 1..(Len(chars) - total + 1) :
                      \A j \in i..(i + total - 1) : IsDigit(chars[j])}
    IN  IF starts = {} THEN 0
        ELSE CHOOSE i \in starts : \A k \in starts : i <= k

\* the capture groups of a match starting at `start`
RECURSIVE Groups(_, _, _)
Groups(chars, start, widths) ==
    IF widths = <<>> THEN <<>>
    ELSE <<SubSeq(chars, start, start + Head(widths) - 1)>>
            \o Groups(chars, start + Head(widths), Tail(widths))

GroupRef == [ref \in {"$1", "$2", "$3", "$4", "$5"} |->
                CASE ref = "$1" -> 1 [] ref = "$2" -> 2 [] ref = "$3" -> 3
                  [] ref = "$4" -> 4 [] ref = "$5" -> 5]

\* the expansion of a replacement template, a sequence of "$n" references and
\* literal characters
RECURSIVE Expand(_, _)
Expand(template, groups) ==
    IF template = <<>> THEN <<>>
    ELSE (IF Head(template) \in DOMAIN GroupRef
          THEN groups[GroupRef[Head(template)]]
          ELSE <<Head(template)>>)
            \o Expand(Tail(template), groups)

\* String.prototype.replace(regexp, template) for a regexp of \d{w} groups: the
\* first match is replaced by the expanded template, the rest is kept
replace(chars, widths, template) ==
    LET start == MatchStart(chars, widths)
    IN  IF start = 0 THEN chars
        ELSE SubSeq(chars, 1, start - 1)
                \o Expand(template, Groups(chars, start, widths))
                \o SubSeq(chars, start + Sum(widths), Len(chars))

----------------------------------------------------------------------------
(* src/unnamed/part_003: BrazilFormatUtils *)

\* typeof value === 'number' ? value.toString() : value
formattedValueOf(val) == IF val.t = "number" THEN Str(toString(val)) ELSE val

CpfTemplate == <<"$1", ".", "$2", ".", "$3", "-", "$4">>
CnpjTemplate == <<"$1", ".", "$2", ".", "$3", "/", "$4", "-", "$5">>
CepTemplate == <<"$1", "-", "$2">>
TelefoneTemplate == <<"(", "$1", ")", " ", "$2", "-", "$3">>

\* mutant of formatarCpfCnpj: the CNPJ groups cut as 3-3-3-3-2
formatarCpfCnpj_cnpjGroups(val) ==
    LET formattedValue == formattedValueOf(val)
    IN  IF isNullOrEmpty(formattedValue) THEN Empty
        ELSE LET numericValue == extractNumericCharacters(formattedValue.v)
             IN  IF Len(numericValue) = 11
                 THEN replace(numericValue, <<3, 3, 3, 2>>, CpfTemplate)
                 ELSE IF Len(numericValue) = 14
                 THEN replace(numericValue, <<3, 3, 3, 3, 2>>, CnpjTemplate)
                 ELSE formattedValue.v

\* mutant of formatarCpfCnpj: the unmatched value returned digit-stripped
formatarCpfCnpj_returnsStripped(val) ==
    LET formattedValue == formattedValueOf(val)
    IN  IF isNullOrEmpty(formattedValue) THEN Empty
        ELSE LET numericValue == extractNumericCharacters(formattedValue.v)
             IN  IF Len(numericValue) = 11
                 THEN replace(numericValue, <<3, 3, 3, 2>>, CpfTemplate)
                 ELSE IF Len(numericValue) = 14
                 THEN replace(numericValue, <<2, 3, 3, 4, 2>>, CnpjTemplate)
                 ELSE numericValue

\* mutant of formatarCpfCnpj: the CPF rendering without its check digits
formatarCpfCnpj_dropsCheckDigits(val) ==
    LET formattedValue == formattedValueOf(val)
    IN  IF isNullOrEmpty(formattedValue) THEN Empty
        ELSE LET numericValue == extractNumericCharacters(formattedValue.v)
             IN  IF Len(numericValue) = 11
                 THEN replace(numericValue, <<3, 3, 3, 2>>,
                              <<"$1", ".", "$2", ".", "$3">>)
                 ELSE IF Len(numericValue) = 14
                 THEN replace(numericValue, <<2, 3, 3, 4, 2>>, CnpjTemplate)
                 ELSE formattedValue.v

formatarCpfCnpj(val) ==
    LET formattedValue == formattedValueOf(val)
    IN  IF isNullOrEmpty(formattedValue) THEN Empty
        ELSE LET numericValue == extractNumericCharacters(formattedValue.v)
             IN  IF Len(numericValue) = 11
                 THEN replace(numericValue, <<3, 3, 3, 2>>, CpfTemplate)
                 ELSE IF Len(numericValue) = 14
                 THEN replace(numericValue, <<2, 3, 3, 4, 2>>, CnpjTemplate)
                 ELSE formattedValue.v

\* mutant of formatarCep: the length test on the unstripped value
formatarCep_testsRawLength(val) ==
    LET formattedValue == formattedValueOf(val)
    IN  IF isNullOrEmpty(formattedValue) THEN Empty
        ELSE LET numericValue == extractNumericCharacters(formattedValue.v)
             IN  IF Len(formattedValue.v) = 8
                 THEN replace(numericValue, <<5, 3>>, CepTemplate)
                 ELSE formattedValue.v

formatarCep(val) ==
    LET formattedValue == formattedValueOf(val)
    IN  IF isNullOrEmpty(formattedValue) THEN Empty
        ELSE LET numericValue == extractNumericCharacters(formattedValue.v)
             IN  IF Len(numericValue) = 8
                 THEN replace(numericValue, <<5, 3>>, CepTemplate)
                 ELSE formattedValue.v

\* mutant of formatarTelefone: the landline pattern used for both lengths
formatarTelefone_landlineOnly(val) ==
    LET formattedValue == formattedValueOf(val)
    IN  IF isNullOrEmpty(formattedValue) THEN Empty
        ELSE LET numericValue == extractNumericCharacters(formattedValue.v)
             IN  IF Len(numericValue) = 11
                 THEN replace(numericValue, <<2, 4, 4>>, TelefoneTemplate)
                 ELSE IF Len(numericValue) = 10
                 THEN replace(numericValue, <<2, 4, 4>>, TelefoneTemplate)
                 ELSE formattedValue.v

formatarTelefone(val) ==
    LET formattedValue == formattedValueOf(val)
    IN  IF isNullOrEmpty(formattedValue) THEN Empty
        ELSE LET numericValue == extractNumericCharacters(formattedValue.v)
             IN  IF Len(numericValue) = 11
                 THEN replace(numericValue, <<2, 5, 4>>, TelefoneTemplate)
                 ELSE IF Len(numericValue) = 10
                 THEN replace(numericValue, <<2, 4, 4>>, TelefoneTemplate)
                 ELSE formattedValue.v

----------------------------------------------------------------------------
(* src/unnamed/part_003: BrazilFormatUtils, vehicle plates *)

\* the regular expression class [A-Z]
IsUpper(c) == c \in {UpperLetters[i] : i \in 1..26}

\* what RegExp.prototype.test matches against: its argument as a string
TestSubject(placa) ==
    CASE placa.t = "string" -> placa.v
      [] placa.t = "null" -> <<"n", "u", "l", "l">>
      [] placa.t = "undefined" -> <<"u", "n", "d", "e", "f", "i", "n", "e", "d">>

\* /^[A-Z]{3}\d{4}$/.test(placa)
isPlacaBrasil(placa) ==
    LET chars == TestSubject(placa)
    IN  /\ Len(chars) = 7
        /\ \A i \in 1..3 : IsUpper(chars[i])
        /\ \A i \in 4..7 : IsDigit(chars[i])

\* mutant of isPlacaMercosul: the pattern with the i flag
isPlacaMercosul_ignoresCase(placa) ==
    LET chars == TestSubject(placa)
    IN  /\ Len(chars) = 7
        /\ \A i \in 1..3 : IsUpper(chars[i]) \/ chars[i] \in {"a", "c", "d", "x"}
        /\ IsDigit(chars[4])
        /\ IsUpper(chars[5]) \/ chars[5] \in {"a", "c", "d", "x"}
        /\ \A i \in 6..7 : IsDigit(chars[i])

\* /^[A-Z]{3}\d[A-Z]\d{2}$/.test(placa)
isPlacaMercosul(placa) ==
    LET chars == TestSubject(placa)
    IN  /\ Len(chars) = 7
        /\ \A i \in 1..3 : IsUpper(chars[i])
        /\ IsDigit(chars[4])
        /\ IsUpper(chars[5])
        /\ \A i \in 6..7 : IsDigit(chars[i])

\* substring(start) and substring(start, end) with 0-based, end-exclusive indices
substring(chars, start, end) == SubSeq(chars, start + 1, end)
substringFrom(chars, start) == SubSeq(chars, start + 1, Len(chars))

\* parseInt of one digit character
parseInt(c) == DigitValue(c)

\* mutant of gerarPlacaBrasil: the letter put in front of the digit, which stays
gerarPlacaBrasil_keepsDigit(chars, pos) ==
    substring(chars, 0, pos)
        \o <<codigoPlacaMercosul[parseInt(chars[pos + 1])]>>
        \o substringFrom(chars, pos)

\* gerarPlacaBrasil(placa, pos): the digit at pos replaced by its letter
gerarPlacaBrasil(chars, pos) ==
    substring(chars, 0, pos)
        \o <<codigoPlacaMercosul[parseInt(chars[pos + 1])]>>
        \o substringFrom(chars, pos + 1)

\* what a call gives: a returned string, or a thrown Error with its message
Returns(chars) == [t |-> "return", v |-> chars]
Throws(message) == [t |-> "throw", v |-> message]

\* mutant of gerarPlacaMercosul: the key taken as a 1-based position
gerarPlacaMercosul_oneBased(chars, pos) ==
    LET letra == chars[pos + 1]
        keys == {key \in DOMAIN codigoPlacaMercosul : codigoPlacaMercosul[key] = letra}
    IN  IF keys # {}
        THEN LET segundoDigito == CHOOSE key \in keys : \A other \in keys : key <= other
             IN  Returns(substring(chars, 0, pos)
                            \o <<DigitChars[((segundoDigito + 1) % 10) + 1]>>
                            \o substringFrom(chars, pos + 1))
        ELSE Throws("Letra não encontrada para o segundo dígito")

\* mutant of gerarPlacaMercosul: a letter without a key passes through
gerarPlacaMercosul_passesThrough(chars, pos) ==
    LET letra == chars[pos + 1]
        keys == {key \in DOMAIN codigoPlacaMercosul : codigoPlacaMercosul[key] = letra}
    IN  IF keys # {}
        THEN LET segundoDigito == CHOOSE key \in keys : \A other \in keys : key <= other
             IN  Returns(substring(chars, 0, pos)
                            \o <<DigitChars[segundoDigito + 1]>>
                            \o substringFrom(chars, pos + 1))
        ELSE Returns(chars)

\* gerarPlacaMercosul(placa, pos): the first key of the table whose letter is
\* the one at pos replaces it; an Error is thrown when there is none
gerarPlacaMercosul(chars, pos) ==
    LET letra == chars[pos + 1]
        keys == {key \in DOMAIN codigoPlacaMercosul : codigoPlacaMercosul[key] = letra}
    IN  IF keys # {}
        THEN LET segundoDigito == CHOOSE key \in keys : \A other \in keys : key <= other
             IN  Returns(substring(chars, 0, pos)
                            \o <<DigitChars[segundoDigito + 1]>>
                            \o substringFrom(chars, pos + 1))
        ELSE Throws("Letra não encontrada para o segundo dígito")

FormatoInvalido ==
    <<"F", "o", "r", "m", "a", "t", "o", " ", "i", "n", "v", "á", "l", "i", "d", "o">>
ErroNaFormatacao ==
    <<"E", "r", "r", "o", " ", "n", "a", " ", "f", "o", "r", "m", "a", "t", "a",
      "ç", "ã", "o">>

\* the try block of formatarPlaca
tryFormatarPlaca(placa) ==
    IF isPlacaBrasil(placa)
    THEN Returns(gerarPlacaBrasil(placa.v, 4))
    ELSE IF isPlacaMercosul(placa)
    THEN gerarPlacaMercosul(placa.v, 4)
    ELSE Returns(FormatoInvalido)

\* mutant of formatarPlaca: no catch, the Error leaves the method
formatarPlaca_rethrows(placa) == tryFormatarPlaca(placa)

\* formatarPlaca(placa): the try block, and the catch that turns a thrown
\* Error into the return of 'Erro na formatação'
formatarPlaca(placa) ==
    LET outcome == tryFormatarPlaca(placa)
    IN  IF outcome.t = "throw" THEN Returns(ErroNaFormatacao) ELSE outcome

\* mutant of mapAfterFormatarPlaca: a letter the table lacks is cached in it
mapAfterFormatarPlaca_cachesLetter(placa) ==
    IF /\ ~isPlacaBrasil(placa)
       /\ isPlacaMercosul(placa)
       /\ \A key \in DOMAIN codigoPlacaMercosul : codigoPlacaMercosul[key] # placa.v[5]
    THEN [codigoPlacaMercosul EXCEPT ![0] = placa.v[5]]
    ELSE codigoPlacaMercosul

\* the Map after a call of formatarPlaca: the method and the two generators
\* read it (get, iteration) and never call set, delete or clear
mapAfterFormatarPlaca(placa) == codigoPlacaMercosul

\* what the caller of a method gets: the returned string, or the thrown Error
Completion(outcome) ==
    IF outcome.t = "return" THEN Str(outcome.v) ELSE outcome

----------------------------------------------------------------------------
(* The formatters' inputs and calls *)

FirstDigits == {0, 1}
NonDigits == {" ", "."}

\* n consecutive decimal digits counting up from `first`, as digit values
DigitRun(first, n) == [i \in 1..n |-> (first + i - 1) % 10]

CharsOf(digits) == [i \in 1..Len(digits) |-> DigitChars[digits[i] + 1]]

\* the characters that may follow `chars` in an input: the next digit of its
\* run (a first digit for a new run) and any non-digit character
NextChars(chars) ==
    LET digits == SelectSeq(chars, IsDigit)
        nextDigits ==
            IF Len(digits) >= MaxDigits THEN {}
            ELSE IF digits = <<>> THEN {DigitChars[first + 1] : first \in FirstDigits}
            ELSE {DigitChars[((DigitValue(digits[Len(digits)]) + 1) % 10) + 1]}
        nextNonDigits ==
            IF Len(chars) - Len(digits) >= MaxNonDigits THEN {} ELSE NonDigits
    IN  nextDigits \cup nextNonDigits

\* the strings that hold a run of up to MaxDigits digits with up to MaxNonDigits
\* non-digit characters anywhere among them, grown one character at a time
RECURSIVE Scattered(_, _, _)
Scattered(all, longest, k) ==
    IF k = 0 THEN all
    ELSE LET longer == UNION {{Append(chars, c) : c \in NextChars(chars)} :
                                 chars \in longest}
         IN  Scattered(all \cup longer, longer, k - 1)

\* a punctuation mask filled with digits, one per "#"
RECURSIVE ApplyMask(_, _)
ApplyMask(mask, chars) ==
    IF mask = <<>> THEN <<>>
    ELSE IF Head(mask) = "#"
         THEN <<Head(chars)>> \o ApplyMask(Tail(mask), Tail(chars))
         ELSE <<Head(mask)>> \o ApplyMask(Tail(mask), chars)

IsPlaceholder(c) == c = "#"

Masks ==
    { <<"#", "#", "#", ".", "#", "#", "#", ".", "#", "#", "#", "-", "#", "#">>,
      <<"#", "#", ".", "#", "#", "#", ".", "#", "#", "#", "/", "#", "#", "#", "#",
        "-", "#", "#">>,
      <<"#", "#", "#", "#", "#", "-", "#", "#", "#">>,
      <<"(", "#", "#", ")", " ", "#", "#", "#", "#", "#", "-", "#", "#", "#", "#">>,
      <<"(", "#", "#", ")", " ", "#", "#", "#", "#", "-", "#", "#", "#", "#">> }

StringInputs ==
    Scattered({<<>>}, {<<>>}, MaxDigits + MaxNonDigits)
        \cup {ApplyMask(mask, CharsOf(DigitRun(first, Len(SelectSeq(mask, IsPlaceholder))))) :
                mask \in Masks, first \in FirstDigits}

NumberInputs ==
    {Num(neg, DigitRun(1, n)) : neg \in BOOLEAN, n \in 1..MaxDigits}
        \cup {Num(FALSE, <<0>>)}

FormatInputs ==
    {Str(chars) : chars \in StringInputs} \cup NumberInputs \cup {Undefined, Null}

InitFormat ==
    /\ value \in FormatInputs
    /\ factory = ""
    /\ result = NoResult
    /\ fn = ""
    /\ returned = Undefined
    /\ codigoPlacaMercosul = CodigoPlacaMercosulInicial

CallFormatarCpfCnpj ==
    /\ fn' = "formatarCpfCnpj"
    /\ returned' = Str(formatarCpfCnpj(value))
    /\ UNCHANGED <<value, factory, result, codigoPlacaMercosul>>

CallFormatarCep ==
    /\ fn' = "formatarCep"
    /\ returned' = Str(formatarCep(value))
    /\ UNCHANGED <<value, factory, result, codigoPlacaMercosul>>

CallFormatarTelefone ==
    /\ fn' = "formatarTelefone"
    /\ returned' = Str(formatarTelefone(value))
    /\ UNCHANGED <<value, factory, result, codigoPlacaMercosul>>

NextFormat ==
    \/ CallFormatarCpfCnpj
    \/ CallFormatarCep
    \/ CallFormatarTelefone

SpecFormat == InitFormat /\ [][NextFormat]_vars

----------------------------------------------------------------------------
(* Claims about the document formatters (checked under SpecFormat) *)

\* the input's string form: a string itself, a number's decimal string
RECURSIVE DecimalChars(_)
DecimalChars(digits) ==
    IF digits = <<>> THEN <<>>
    ELSE <<DigitChars[Head(digits) + 1]>> \o DecimalChars(Tail(digits))

StringForm(val) ==
    IF val.t = "string" THEN val.v
    ELSE IF val.neg /\ val.v # <<0>> THEN <<"-">> \o DecimalChars(val.v)
    ELSE DecimalChars(val.v)

\* the digit-stripped form: the digits of a string, in order
RECURSIVE Stripped(_)
Stripped(chars) ==
    IF chars = <<>> THEN <<>>
    ELSE IF Head(chars) \in {"0", "1", "2", "3", "4", "5", "6", "7", "8", "9"}
         THEN <<Head(chars)>> \o Stripped(Tail(chars))
         ELSE Stripped(Tail(chars))

WhitespaceOnly(chars) ==
    chars # <<>> /\ \A i \in 1..Len(chars) : chars[i] \in {" ", "\t", "\n", "\r"}

StringOrNumber == value.t \in {"string", "number"}

\* the canonical renderings, digit by digit
AsCpf(d) ==
    <<d[1], d[2], d[3], ".", d[4], d[5], d[6], ".", d[7], d[8], d[9], "-", d[10], d[11]>>
AsCnpj(d) ==
    <<d[1], d[2], ".", d[3], d[4], d[5], ".", d[6], d[7], d[8], "/",
      d[9], d[10], d[11], d[12], "-", d[13], d[14]>>
AsCep(d) == <<d[1], d[2], d[3], d[4], d[5], "-", d[6], d[7], d[8]>>
AsMobile(d) ==
    <<"(", d[1], d[2], ")", " ", d[3], d[4], d[5], d[6], d[7], "-",
      d[8], d[9], d[10], d[11]>>
AsLandline(d) ==
    <<"(", d[1], d[2], ")", " ", d[3], d[4], d[5], d[6], "-", d[7], d[8], d[9], d[10]>>

\* C6: formatarCpfCnpj of a string or number whose digit-stripped form d has 11
\* digits is d as DDD.DDD.DDD-DD, and with 14 digits d as DD.DDD.DDD/DDDD-DD,
\* the digits in their original order.
C6_CpfCnpjGrouping ==
    (fn = "formatarCpfCnpj" /\ StringOrNumber) =>
        LET d == Stripped(StringForm(value))
        IN  /\ Len(d) = 11 => returned.v = AsCpf(d)
            /\ Len(d) = 14 => returned.v = AsCnpj(d)

C6_Witness ==
    /\ fn = "formatarCpfCnpj"
    /\ value.t = "string"
    /\ Len(value.v) = 18
    /\ Len(Stripped(value.v)) = 14
    /\ value.v[3] = "."
    /\ returned.v = value.v

\* C7 as stated: formatarCpfCnpj of a non-empty string whose digit count is
\* neither 11 nor 14 is the digit-stripped form of the string.
C7_UnmatchedIsStripped ==
    (fn = "formatarCpfCnpj" /\ value.t = "string" /\ value.v # <<>>
        /\ Len(Stripped(value.v)) \notin {11, 14}) =>
        returned.v = Stripped(value.v)

\* C7 amended: formatarCpfCnpj of a non-empty string whose digit count is
\* neither 11 nor 14 is the string itself, its non-digit characters kept,
\* except that a whitespace-only string gives ''.
C7_UnmatchedIsUnchanged ==
    (fn = "formatarCpfCnpj" /\ value.t = "string" /\ value.v # <<>>
        /\ Len(Stripped(value.v)) \notin {11, 14}) =>
        returned.v = IF WhitespaceOnly(value.v) THEN <<>> ELSE value.v

C7_Witness ==
    /\ fn = "formatarCpfCnpj"
    /\ value.t = "string"
    /\ Len(Stripped(value.v)) = 12
    /\ Len(value.v) = 14
    /\ returned.v = value.v
    /\ returned.v # Stripped(value.v)

\* C8 as stated: formatarCep of an input with 8 digits is DDDDD-DDD, of any
\* other input the input's string form unchanged; a number gives what its
\* decimal string gives.
C8_CepOrUnchanged ==
    (fn = "formatarCep" /\ StringOrNumber) =>
        LET d == Stripped(StringForm(value))
        IN  /\ Len(d) = 8 => returned.v = AsCep(d)
            /\ Len(d) # 8 => returned.v = StringForm(value)
            /\ value.t = "number" =>
                  returned.v = formatarCep(Str(StringForm(value)))

\* C8 amended: formatarCep of an input with 8 digits is DDDDD-DDD, of any other
\* input the input's string form unchanged, except that a whitespace-only
\* string gives ''; a number gives what its decimal string gives.
C8_CepOrUnchangedOrBlank ==
    (fn = "formatarCep" /\ StringOrNumber) =>
        LET d == Stripped(StringForm(value))
        IN  /\ Len(d) = 8 => returned.v = AsCep(d)
            /\ Len(d) # 8 =>
                  returned.v = IF WhitespaceOnly(StringForm(value)) THEN <<>>
                               ELSE StringForm(value)
            /\ value.t = "number" =>
                  returned.v = formatarCep(Str(StringForm(value)))

C8_Witness ==
    /\ fn = "formatarCep"
    /\ value.t = "number"
    /\ value.v = <<1, 2, 3, 4, 5, 6, 7, 8>>
    /\ returned.v = <<"1", "2", "3", "4", "5", "-", "6", "7", "8">>

\* C9 as stated: formatarTelefone of an input with 11 digits is (DD) DDDDD-DDDD,
\* with 10 digits (DD) DDDD-DDDD, of any other input the input's string form
\* unchanged.
C9_TelefoneOrUnchanged ==
    (fn = "formatarTelefone" /\ StringOrNumber) =>
        LET d == Stripped(StringForm(value))
        IN  /\ Len(d) = 11 => returned.v = AsMobile(d)
            /\ Len(d) = 10 => returned.v = AsLandline(d)
            /\ Len(d) \notin {10, 11} => returned.v = StringForm(value)

\* C9 amended: as stated, except that a whitespace-only string gives ''.
C9_TelefoneOrUnchangedOrBlank ==
    (fn = "formatarTelefone" /\ StringOrNumber) =>
        LET d == Stripped(StringForm(value))
        IN  /\ Len(d) = 11 => returned.v = AsMobile(d)
            /\ Len(d) = 10 => returned.v = AsLandline(d)
            /\ Len(d) \notin {10, 11} =>
                  returned.v = IF WhitespaceOnly(StringForm(value)) THEN <<>>
                               ELSE StringForm(value)

C9_Witness ==
    /\ fn = "formatarTelefone"
    /\ value.t = "string"
    /\ Len(Stripped(value.v)) = 11
    /\ Len(value.v) = 13
    /\ returned.v = AsMobile(Stripped(value.v))
    /\ returned.v # value.v

----------------------------------------------------------------------------
(* The plate formatter's inputs and call *)

\* seven-character inputs: candidates for each position, every digit and every
\* upper-case letter among those of position 4
PlacaChars ==
    << {"A", "Z", "a", "1"},
       {"B"},
       {"C", "c"},
       {"1", "9", "X"},
       {DigitChars[i] : i \in 1..10} \cup {UpperLetters[i] : i \in 1..26} \cup {"d", "-"},
       {"0", "2"},
       {"3", "x"} >>

SevenChars ==
    {<<c1, c2, c3, c4, c5, c6, c7>> :
        c1 \in PlacaChars[1], c2 \in PlacaChars[2], c3 \in PlacaChars[3],
        c4 \in PlacaChars[4], c5 \in PlacaChars[5], c6 \in PlacaChars[6],
        c7 \in PlacaChars[7]}

\* inputs of another length: cut short, or with a character too many
OtherLengths ==
    UNION {{SubSeq(chars, 1, n) : n \in 0..6} : chars \in SevenChars}
        \cup {Append(chars, "4") : chars \in SevenChars}

\* the plates of the documented examples, 'ABC1234' and 'ABC1D12'
ExamplePlacas ==
    { <<"A", "B", "C", "1", "2", "3", "4">>, <<"A", "B", "C", "1", "D", "1", "2">> }

PlacaInputs ==
    {Str(chars) : chars \in SevenChars \cup OtherLengths \cup ExamplePlacas}
        \cup {Undefined, Null}

InitPlaca ==
    /\ value \in PlacaInputs
    /\ factory = ""
    /\ result = NoResult
    /\ fn = ""
    /\ returned = Undefined
    /\ codigoPlacaMercosul = CodigoPlacaMercosulInicial

CallFormatarPlaca ==
    /\ fn' = "formatarPlaca"
    /\ returned' = Completion(formatarPlaca(value))
    /\ codigoPlacaMercosul' = mapAfterFormatarPlaca(value)
    /\ UNCHANGED <<value, factory, result>>

NextPlaca == CallFormatarPlaca

SpecPlaca == InitPlaca /\ [][NextPlaca]_vars

----------------------------------------------------------------------------
(* Claims about the plate formatter (checked under SpecPlaca) *)

Letters ==
    {"A", "B", "C", "D", "E", "F", "G", "H", "I", "J", "K", "L", "M",
     "N", "O", "P", "Q", "R", "S", "T", "U", "V", "W", "X", "Y", "Z"}
Numerals == {"0", "1", "2", "3", "4", "5", "6", "7", "8", "9"}

\* the substitution table, digit to letter
Table ==
    {<<"0", "A">>, <<"1", "B">>, <<"2", "C">>, <<"3", "D">>, <<"4", "E">>,
     <<"5", "F">>, <<"6", "G">>, <<"7", "H">>, <<"8", "I">>, <<"9", "J">>}

\* the legacy pattern [A-Z]{3}\d{4} and the unified pattern [A-Z]{3}\d[A-Z]\d{2}
Legacy(chars) ==
    /\ Len(chars) = 7
    /\ {chars[1], chars[2], chars[3]} \subseteq Letters
    /\ {chars[4], chars[5], chars[6], chars[7]} \subseteq Numerals
Unified(chars) ==
    /\ Len(chars) = 7
    /\ {chars[1], chars[2], chars[3], chars[5]} \subseteq Letters
    /\ {chars[4], chars[6], chars[7]} \subseteq Numerals

\* chars with the character at 0-indexed position 4 replaced by c
WithPosition4(chars, c) == [chars EXCEPT ![5] = c]

\* C10 as stated: a legacy plate comes back with its digit at position 4
\* replaced by the table's letter, a unified plate with its letter at position 4
\* replaced by the digit the table maps to that letter, all else unchanged.
C10_PlacaSubstitution ==
    (fn = "formatarPlaca" /\ value.t = "string") =>
        /\ Legacy(value.v) =>
              \E pair \in Table :
                  /\ pair[1] = value.v[5]
                  /\ returned.v = WithPosition4(value.v, pair[2])
        /\ Unified(value.v) =>
              \E pair \in Table :
                  /\ pair[2] = value.v[5]
                  /\ returned.v = WithPosition4(value.v, pair[1])

\* C10 amended: as stated for a legacy plate, and for a unified plate whose
\* letter at position 4 is one of A..J; a unified plate whose letter at
\* position 4 is one of K..Z, which the table maps no digit to, comes back as
\* 'Erro na formatação'.
C10_PlacaSubstitutionInTable ==
    (fn = "formatarPlaca" /\ value.t = "string") =>
        /\ Legacy(value.v) =>
              \E pair \in Table :
                  /\ pair[1] = value.v[5]
                  /\ returned.v = WithPosition4(value.v, pair[2])
        /\ Unified(value.v) =>
              IF \E pair \in Table : pair[2] = value.v[5]
              THEN \E pair \in Table :
                      /\ pair[2] = value.v[5]
                      /\ returned.v = WithPosition4(value.v, pair[1])
              ELSE returned.v = ErroNaFormatacao

C10_Witness ==
    /\ fn = "formatarPlaca"
    /\ value.t = "string"
    /\ Unified(value.v)
    /\ value.v[5] = "D"
    /\ returned.v = WithPosition4(value.v, "3")
    /\ returned.v # value.v

InTable(letter) == \E pair \in Table : pair[2] = letter

InvalidFormatSentinel ==
    <<"F", "o", "r", "m", "a", "t", "o", " ", "i", "n", "v", "á", "l", "i", "d", "o">>
FormattingErrorText ==
    <<"E", "r", "r", "o", " ", "n", "a", " ", "f", "o", "r", "m", "a", "t", "a",
      "ç", "ã", "o">>

\* C11: an input that matches neither pattern (lower case, wrong length, empty)
\* comes back as the sentinel 'Formato inválido', never as itself.
C11_InvalidIsSentinel ==
    fn = "formatarPlaca" =>
        /\ (value.t = "string" /\ ~Legacy(value.v) /\ ~Unified(value.v)) =>
              /\ returned.t = "string"
              /\ returned.v = InvalidFormatSentinel
              /\ returned.v # value.v
        /\ value.t \in {"null", "undefined"} =>
              /\ returned.t = "string"
              /\ returned.v = InvalidFormatSentinel

C11_Witness ==
    /\ fn = "formatarPlaca"
    /\ value.t = "string"
    /\ Len(value.v) = 7
    /\ value.v[5] = "d"
    /\ {value.v[1], value.v[2], value.v[3]} \subseteq Letters
    /\ {value.v[4], value.v[6], value.v[7]} \subseteq Numerals
    /\ returned.v = InvalidFormatSentinel

\* formatarPlaca applied to what formatarPlaca returned
Twice == Completion(formatarPlaca(returned))

\* C12 as stated: formatarPlaca is its own inverse on valid plates: a legacy
\* plate gives a unified one and a unified plate a legacy one, and a second
\* application gives the origin back.
C12_SelfInverse ==
    (fn = "formatarPlaca" /\ value.t = "string") =>
        /\ Legacy(value.v) =>
              (returned.t = "string" /\ Unified(returned.v) /\ Twice = value)
        /\ Unified(value.v) =>
              (returned.t = "string" /\ Legacy(returned.v) /\ Twice = value)

\* C12 amended: formatarPlaca is its own inverse on every legacy plate and on
\* every unified plate whose letter at position 4 is one of A..J; a unified
\* plate with one of K..Z there gives 'Erro na formatação', and a second
\* application gives 'Formato inválido', not the origin.
C12_SelfInverseInTable ==
    (fn = "formatarPlaca" /\ value.t = "string") =>
        /\ Legacy(value.v) =>
              (returned.t = "string" /\ Unified(returned.v) /\ Twice = value)
        /\ (Unified(value.v) /\ InTable(value.v[5])) =>
              (returned.t = "string" /\ Legacy(returned.v) /\ Twice = value)
        /\ (Unified(value.v) /\ ~InTable(value.v[5])) =>
              /\ returned.t = "string"
              /\ returned.v = FormattingErrorText
              /\ Twice.t = "string"
              /\ Twice.v = InvalidFormatSentinel

C12_Witness ==
    /\ fn = "formatarPlaca"
    /\ value.t = "string"
    /\ Legacy(value.v)
    /\ value.v[5] = "9"
    /\ returned.v[5] = "J"
    /\ Unified(returned.v)
    /\ Twice = value

\* C13 as stated: a unified plate whose letter at position 4 has no entry in
\* the table makes formatarPlaca throw to its caller; no string is returned.
C13_LookupFailureThrows ==
    (fn = "formatarPlaca" /\ value.t = "string" /\ Unified(value.v)
        /\ ~InTable(value.v[5])) =>
        returned.t = "throw"

\* C13 amended: for such a plate gerarPlacaMercosul throws, formatarPlaca's
\* catch takes the Error, and the caller gets the string 'Erro na formatação';
\* formatarPlaca throws nothing.
C13_LookupFailureIsCaught ==
    (fn = "formatarPlaca" /\ value.t = "string" /\ Unified(value.v)
        /\ ~InTable(value.v[5])) =>
        /\ gerarPlacaMercosul(value.v, 4).t = "throw"
        /\ returned.t = "string"
        /\ returned.v = FormattingErrorText

C13_Witness ==
    /\ fn = "formatarPlaca"
    /\ value.t = "string"
    /\ Unified(value.v)
    /\ value.v[5] = "K"
    /\ returned.t = "string"
    /\ returned.v = FormattingErrorText

\* C16: formatarPlaca('ABC1234') returns 'ABC1234' and formatarPlaca('ABC1D12')
\* returns 'ABC11212'.
C16_DocumentedExamples ==
    (fn = "formatarPlaca" /\ value.t = "string") =>
        /\ value.v = <<"A", "B", "C", "1", "2", "3", "4">> =>
              returned.v = <<"A", "B", "C", "1", "2", "3", "4">>
        /\ value.v = <<"A", "B", "C", "1", "D", "1", "2">> =>
              returned.v = <<"A", "B", "C", "1", "1", "2", "1", "2">>

----------------------------------------------------------------------------
(* The four formatters of BrazilFormatUtils over the same inputs *)

FormattersInputs ==
    {Str(chars) : chars \in StringInputs \cup SevenChars \cup OtherLengths}
        \cup {Undefined, Null}

InitFormatters ==
    /\ value \in FormattersInputs
    /\ factory = ""
    /\ result = NoResult
    /\ fn = ""
    /\ returned = Undefined
    /\ codigoPlacaMercosul = CodigoPlacaMercosulInicial

NextFormatters ==
    \/ CallFormatarCpfCnpj
    \/ CallFormatarCep
    \/ CallFormatarTelefone
    \/ CallFormatarPlaca

SpecFormatters == InitFormatters /\ [][NextFormatters]_vars

\* null, undefined, '' or a whitespace-only string
Blank ==
    \/ value.t \in {"null", "undefined"}
    \/ value.t = "string" /\ (value.v = <<>> \/ WhitespaceOnly(value.v))

Formatters == {"formatarCpfCnpj", "formatarCep", "formatarTelefone", "formatarPlaca"}

\* C14 as stated: for null, undefined, '' and whitespace-only input each of
\* formatarCpfCnpj, formatarCep, formatarTelefone and formatarPlaca returns ''
\* and never throws.
C14_BlankGivesEmpty ==
    (fn \in Formatters /\ Blank) =>
        (returned.t = "string" /\ returned.v = <<>>)

\* C14 amended: for null, undefined, '' and whitespace-only input
\* formatarCpfCnpj, formatarCep and formatarTelefone return ''; formatarPlaca
\* returns 'Formato inválido'; none of the four throws.
C14_BlankGivesEmptyOrSentinel ==
    (fn \in Formatters /\ Blank) =>
        /\ returned.t = "string"
        /\ fn # "formatarPlaca" => returned.v = <<>>
        /\ fn = "formatarPlaca" => returned.v = InvalidFormatSentinel

C14_Witness ==
    /\ fn = "formatarCep"
    /\ value.t = "string"
    /\ value.v = <<" ", " ">>
    /\ returned.t = "string"
    /\ returned.v = <<>>

----------------------------------------------------------------------------
(* Round trip of formatarCpfCnpj (checked under SpecFormat) *)

\* C15: for an 11-digit identifier x, stripping the formatted value back to
\* its digits and formatting again gives the same formatted value:
\* formatarCpfCnpj(extractNumericCharacters(formatarCpfCnpj(x))) = formatarCpfCnpj(x).
C15_FormatStripFormat ==
    (fn = "formatarCpfCnpj" /\ StringOrNumber
        /\ Len(Stripped(StringForm(value))) = 11) =>
        /\ returned.t = "string"
        /\ Len(extractNumericCharacters(returned.v)) = 11
        /\ formatarCpfCnpj(Str(extractNumericCharacters(returned.v))) = returned.v

C15_Witness ==
    /\ fn = "formatarCpfCnpj"
    /\ value.t = "number"
    /\ Len(value.v) = 11
    /\ Len(returned.v) = 14
    /\ returned.v[12] = "-"
    /\ formatarCpfCnpj(Str(extractNumericCharacters(returned.v))) = returned.v

----------------------------------------------------------------------------
(* Interleaved callers of the formatters and of the Result factories.       *)
(* Every method is a synchronous static function: a call runs to completion *)
(* before another caller's call starts, and an interleaving is the order in *)
(* which the callers' calls happen.  Here value, fn and returned hold one   *)
(* entry per caller: its last call's argument, method and returned value.   *)

Callers == 1..MaxCallers

ConcurrentValues ==
    {Str(CharsOf(DigitRun(1, 11))),
     Str(<<"A", "B", "C", "1", "2", "3", "4">>),
     Str(<<"A", "B", "C", "1", "D", "1", "2">>),
     Str(<<"A", "B", "C", "1", "S", "2", "3">>),
     Null}

ConcurrentFailures ==
    {<<StrArg("field")>>, <<VFArg("email", "required")>>}

ConcurrentData == {<<>>, <<Num(FALSE, <<7>>)>>}

InitConcurrent ==
    /\ value = [c \in Callers |-> Undefined]
    /\ factory = ""
    /\ result = NoResult
    /\ fn = [c \in Callers |-> ""]
    /\ returned = [c \in Callers |-> Undefined]
    /\ codigoPlacaMercosul = CodigoPlacaMercosulInicial

FormatarCpfCnpjBy(c) ==
    \E val \in ConcurrentValues :
        /\ value' = [value EXCEPT ![c] = val]
        /\ fn' = [fn EXCEPT ![c] = "formatarCpfCnpj"]
        /\ returned' = [returned EXCEPT ![c] = Str(formatarCpfCnpj(val))]
        /\ UNCHANGED <<factory, result, codigoPlacaMercosul>>

FormatarCepBy(c) ==
    \E val \in ConcurrentValues :
        /\ value' = [value EXCEPT ![c] = val]
        /\ fn' = [fn EXCEPT ![c] = "formatarCep"]
        /\ returned' = [returned EXCEPT ![c] = Str(formatarCep(val))]
        /\ UNCHANGED <<factory, result, codigoPlacaMercosul>>

FormatarTelefoneBy(c) ==
    \E val \in ConcurrentValues :
        /\ value' = [value EXCEPT ![c] = val]
        /\ fn' = [fn EXCEPT ![c] = "formatarTelefone"]
        /\ returned' = [returned EXCEPT ![c] = Str(formatarTelefone(val))]
        /\ UNCHANGED <<factory, result, codigoPlacaMercosul>>

FormatarPlacaBy(c) ==
    \E placa \in ConcurrentValues :
        /\ value' = [value EXCEPT ![c] = placa]
        /\ fn' = [fn EXCEPT ![c] = "formatarPlaca"]
        /\ returned' = [returned EXCEPT ![c] = Completion(formatarPlaca(placa))]
        /\ codigoPlacaMercosul' = mapAfterFormatarPlaca(placa)
        /\ UNCHANGED <<factory, result>>

FalseBy(c) ==
    \E failures \in ConcurrentFailures :
        /\ value' = [value EXCEPT ![c] = failures]
        /\ fn' = [fn EXCEPT ![c] = "False"]
        /\ returned' = [returned EXCEPT ![c] = False(failures)]
        /\ UNCHANGED <<factory, result, codigoPlacaMercosul>>

TrueBy(c) ==
    \E args \in ConcurrentData :
        /\ value' = [value EXCEPT ![c] = args]
        /\ fn' = [fn EXCEPT ![c] = "True"]
        /\ returned' = [returned EXCEPT ![c] = True(args)]
        /\ UNCHANGED <<factory, result, codigoPlacaMercosul>>

NextConcurrent ==
    \E c \in Callers :
        \/ FormatarCpfCnpjBy(c)
        \/ FormatarCepBy(c)
        \/ FormatarTelefoneBy(c)
        \/ FormatarPlacaBy(c)
        \/ FalseBy(c)
        \/ TrueBy(c)

SpecConcurrent == InitConcurrent /\ [][NextConcurrent]_vars

\* the ten pairs of the plate table, written out
TableAsBuilt ==
    (0 :> "A") @@ (1 :> "B") @@ (2 :> "C") @@ (3 :> "D") @@ (4 :> "E")
        @@ (5 :> "F") @@ (6 :> "G") @@ (7 :> "H") @@ (8 :> "I") @@ (9 :> "J")

\* what a call returns when no other call has run: the method applied in a
\* state whose table is the table as built
Alone(name, arg) ==
    CASE name = "formatarCpfCnpj" -> Str(formatarCpfCnpj(arg))
      [] name = "formatarCep" -> Str(formatarCep(arg))
      [] name = "formatarTelefone" -> Str(formatarTelefone(arg))
      [] name = "formatarPlaca" -> Completion(formatarPlaca(arg))
      [] name = "False" -> False(arg)
      [] name = "True" -> True(arg)

\* C17: under any interleaving of calls to the formatters and the Result
\* factories each call returns what it returns when run alone, and the plate
\* table is the table as built in every reachable state.
C17_CallsDoNotInterfere ==
    /\ codigoPlacaMercosul = TableAsBuilt
    /\ \A c \in Callers :
          fn[c] # "" => returned[c] = Alone(fn[c], value[c])

C17_Witness ==
    /\ fn[1] = "formatarPlaca"
    /\ value[1] = Str(<<"A", "B", "C", "1", "S", "2", "3">>)
    /\ returned[1] = Str(FormattingErrorText)
    /\ fn[2] = "formatarPlaca"
    /\ value[2] = Str(<<"A", "B", "C", "1", "D", "1", "2">>)
    /\ returned[2] = Str(<<"A", "B", "C", "1", "3", "1", "2">>)
    /\ codigoPlacaMercosul = TableAsBuilt

----------------------------------------------------------------------------
(* src/src/string/string-utils.ts: isNullOrEmpty and capitalize on their own. *)
(* FieldUtils.hasEmptyFields(...fields: any[]) hands isNullOrEmpty values of  *)
(* any type, so the inputs hold numbers, booleans and arrays too.            *)

StringAlphabet == {"a", "h", "Z", "!", "1", " ", "\t"}

StringUtilsInputs ==
    {Str(chars) : chars \in SeqsUpTo(StringAlphabet, MaxStrLen)}
        \cup {Undefined, Null, Num(FALSE, <<0>>), Num(FALSE, <<7>>),
              Bool(FALSE), Bool(TRUE), Array(<<>>)}

InitString ==
    /\ value \in StringUtilsInputs
    /\ factory = ""
    /\ result = NoResult
    /\ fn = ""
    /\ returned = Undefined
    /\ codigoPlacaMercosul = CodigoPlacaMercosulInicial

CallIsNullOrEmpty ==
    /\ fn' = "isNullOrEmpty"
    /\ returned' = Bool(isNullOrEmpty(value))
    /\ UNCHANGED <<value, factory, result, codigoPlacaMercosul>>

CallCapitalize ==
    /\ fn' = "capitalize"
    /\ returned' = Str(capitalize(value))
    /\ UNCHANGED <<value, factory, result, codigoPlacaMercosul>>

NextString ==
    \/ CallIsNullOrEmpty
    \/ CallCapitalize

SpecString == InitString /\ [][NextString]_vars

\* undefined, null, '' or a whitespace-only string
NullOrBlank ==
    \/ value.t \in {"undefined", "null"}
    \/ value.t = "string" /\ (value.v = <<>> \/ WhitespaceOnly(value.v))

UpperOf(c) == CASE c = "a" -> "A" [] c = "h" -> "H" [] OTHER -> c
LowerOf(c) == CASE c = "Z" -> "z" [] OTHER -> c

\* C19: capitalize of a string is its first character upper-cased followed by
\* the rest lower-cased; '' gives ''; a first character that is not a letter
\* is left as it is.
C19_Capitalize ==
    (fn = "capitalize" /\ value.t = "string") =>
        /\ returned.t = "string"
        /\ Len(returned.v) = Len(value.v)
        /\ \A i \in 1..Len(value.v) :
              returned.v[i] = IF i = 1 THEN UpperOf(value.v[i]) ELSE LowerOf(value.v[i])
        /\ (value.v # <<>> /\ value.v[1] \notin {"a", "h", "Z"}) =>
              returned.v[1] = value.v[1]

C19_Witness ==
    /\ fn = "capitalize"
    /\ value.t = "string"
    /\ value.v = <<"h", "Z", "a">>
    /\ returned.v = <<"H", "z", "a">>

----------------------------------------------------------------------------
(* src/src/time/time-utils.ts: TimeUtils.converterSegundosParaHHMMSS *)

\* the number value NaN
NaN == [t |-> "NaN"]

\* the typeof operator
typeof(val) ==
    CASE val.t \in {"number", "NaN"} -> "number"
      [] val.t = "string" -> "string"
      [] val.t = "boolean" -> "boolean"
      [] val.t = "undefined" -> "undefined"
      [] OTHER -> "object"

isNaN(val) == val.t = "NaN"

\* the decimal expansion of a natural number, and the number value of an integer
RECURSIVE DigitsOf(_)
DigitsOf(n) == IF n < 10 THEN <<n>> ELSE Append(DigitsOf(n \div 10), n % 10)

NumOf(n) == IF n < 0 THEN Num(TRUE, DigitsOf(-n)) ELSE Num(FALSE, DigitsOf(n))

\* the integer a number value stands for
RECURSIVE Magnitude(_)
Magnitude(digits) ==
    IF digits = <<>> THEN 0
    ELSE 10 * Magnitude(SubSeq(digits, 1, Len(digits) - 1)) + digits[Len(digits)]

IntOf(val) == IF val.neg THEN -Magnitude(val.v) ELSE Magnitude(val.v)

\* String.prototype.padStart(targetLength, padString) with a one-character pad
padStart(chars, targetLength, pad) ==
    IF Len(chars) >= targetLength THEN chars
    ELSE [i \in 1..(targetLength - Len(chars)) |-> pad] \o chars

ZeroTime == <<"0", "0", ":", "0", "0", ":", "0", "0">>

\* mutant of converterSegundosParaHHMMSS: the minutes of the whole duration
converterSegundosParaHHMMSS_totalMinutes(segundos) ==
    IF typeof(segundos) # "number" \/ isNaN(segundos) \/ IntOf(segundos) < 0
    THEN ZeroTime
    ELSE LET horas == IntOf(segundos) \div 3600
             minutos == IntOf(segundos) \div 60
             segundosRestantes == IntOf(segundos) % 60
         IN  padStart(toString(NumOf(horas)), 2, "0") \o <<":">>
                 \o padStart(toString(NumOf(minutos)), 2, "0") \o <<":">>
                 \o padStart(toString(NumOf(segundosRestantes)), 2, "0")

\* converterSegundosParaHHMMSS(segundos), on integer numbers: Math.floor of a
\* quotient of non-negative integers is their integer quotient
converterSegundosParaHHMMSS(segundos) ==
    IF typeof(segundos) # "number" \/ isNaN(segundos) \/ IntOf(segundos) < 0
    THEN ZeroTime
    ELSE LET horas == IntOf(segundos) \div 3600
             minutos == (IntOf(segundos) % 3600) \div 60
             segundosRestantes == IntOf(segundos) % 60
         IN  padStart(toString(NumOf(horas)), 2, "0") \o <<":">>
                 \o padStart(toString(NumOf(minutos)), 2, "0") \o <<":">>
                 \o padStart(toString(NumOf(segundosRestantes)), 2, "0")

\* durations beyond the dense range: a day, and around a hundred hours
LongSegundos == {86399, 86400, 90061, 359999, 360000, 363661}

SegundosInputs ==
    {NumOf(n) : n \in 0..MaxSegundos}
        \cup {NumOf(n) : n \in LongSegundos}
        \cup {NumOf(-n) : n \in {1, 60, 3665}}
        \cup {NaN, Undefined, Null, Bool(TRUE), Str(<<>>),
              Str(<<"3", "6", "6", "5">>)}

InitTime ==
    /\ value \in SegundosInputs
    /\ factory = ""
    /\ result = NoResult
    /\ fn = ""
    /\ returned = Undefined
    /\ codigoPlacaMercosul = CodigoPlacaMercosulInicial

CallConverterSegundosParaHHMMSS ==
    /\ fn' = "converterSegundosParaHHMMSS"
    /\ returned' = Str(converterSegundosParaHHMMSS(value))
    /\ UNCHANGED <<value, factory, result, codigoPlacaMercosul>>

NextTime == CallConverterSegundosParaHHMMSS

SpecTime == InitTime /\ [][NextTime]_vars

\* the colon-separated fields of a text
RECURSIVE Fields(_)
Fields(chars) ==
    IF \A i \in 1..Len(chars) : chars[i] # ":" THEN <<chars>>
    ELSE LET colon == CHOOSE i \in 1..Len(chars) :
                          chars[i] = ":" /\ \A j \in 1..(i - 1) : chars[j] # ":"
         IN  <<SubSeq(chars, 1, colon - 1)>>
                 \o Fields(SubSeq(chars, colon + 1, Len(chars)))

AllNumerals(chars) == \A i \in 1..Len(chars) : chars[i] \in Numerals

\* the number a run of numerals writes
RECURSIVE Reading(_)
Reading(chars) ==
    IF chars = <<>> THEN 0
    ELSE 10 * Reading(SubSeq(chars, 1, Len(chars) - 1))
             + (CHOOSE d \in 0..9 :
                    <<"0", "1", "2", "3", "4", "5", "6", "7", "8", "9">>[d + 1]
                        = chars[Len(chars)])

\* at least two numerals, a leading zero only to fill the second place
TwoPlaces(chars) ==
    /\ Len(chars) >= 2
    /\ AllNumerals(chars)
    /\ Len(chars) > 2 => chars[1] # "0"

NonNegativeInteger == value.t = "number" /\ ~value.neg

----------------------------------------------------------------------------
(* src/src/field/field-utils.ts: FieldUtils.hasEmptyFields *)

\* field.some(item => StringUtils.isNullOrEmpty(item))
RECURSIVE some(_)
some(items) ==
    IF items = <<>> THEN FALSE
    ELSE IF isNullOrEmpty(Head(items)) THEN TRUE
    ELSE some(Tail(items))

\* hasEmptyFields(...fields): the for loop over the fields, returning true at
\* the first array with an empty item or the first empty field
RECURSIVE hasEmptyFields(_)
hasEmptyFields(fields) ==
    IF fields = <<>> THEN FALSE
    ELSE LET field == Head(fields)
         IN  IF field.t = "array"
             THEN IF some(field.v) THEN TRUE ELSE hasEmptyFields(Tail(fields))
             ELSE IF isNullOrEmpty(field) THEN TRUE
             ELSE hasEmptyFields(Tail(fields))

FieldValues ==
    {Undefined, Null, Str(<<>>), Str(<<" ">>), Str(<<"a">>),
     Num(FALSE, <<0>>), Num(FALSE, <<7>>), Bool(FALSE),
     Array(<<>>), Array(<<Str(<<"a">>)>>), Array(<<Str(<<>>)>>),
     Array(<<Str(<<"a">>), Null>>), Array(<<Num(FALSE, <<7>>)>>)}

InitField ==
    /\ value \in SeqsUpTo(FieldValues, MaxFields)
    /\ factory = ""
    /\ result = NoResult
    /\ fn = ""
    /\ returned = Undefined
    /\ codigoPlacaMercosul = CodigoPlacaMercosulInicial

CallHasEmptyFields ==
    /\ fn' = "hasEmptyFields"
    /\ returned' = Bool(hasEmptyFields(value))
    /\ UNCHANGED <<value, factory, result, codigoPlacaMercosul>>

NextField == CallHasEmptyFields

SpecField == InitField /\ [][NextField]_vars

\* null, undefined or the empty string
EmptyValue(val) ==
    \/ val.t \in {"null", "undefined"}
    \/ val.t = "string" /\ val.v = <<>>

\* C21: hasEmptyFields(...fields), with fields of any type, is true if and only
\* if some field is null, undefined or '', or some field is an array holding
\* such an element; it is false when every field and element is non-empty.
C21_TrueIffSomeEmpty ==
    fn = "hasEmptyFields" =>
        (returned.v <=>
            \E i \in 1..Len(value) :
                \/ EmptyValue(value[i])
                \/ /\ value[i].t = "array"
                   /\ \E j \in 1..Len(value[i].v) : EmptyValue(value[i].v[j]))

----------------------------------------------------------------------------
(* src/unnamed/part_002: ArrayUtils.flatMap *)

\* mutant of percorrerArray: a nested array's items pushed as they are
RECURSIVE percorrerArray_oneLevel(_, _)
percorrerArray_oneLevel(arr, valores) ==
    IF arr = <<>> THEN valores
    ELSE LET item == Head(arr)
         IN  percorrerArray_oneLevel(Tail(arr),
                 IF item.t = "array" THEN valores \o item.v
                 ELSE Append(valores, item))

\* percorrerArray(arr): forEach item, recurse into an array, push anything
\* else; `valores` is the closure's array before the call, the value is that
\* array after it
RECURSIVE percorrerArray(_, _)
percorrerArray(arr, valores) ==
    IF arr = <<>> THEN valores
    ELSE LET item == Head(arr)
         IN  percorrerArray(Tail(arr),
                 IF item.t = "array" THEN percorrerArray(item.v, valores)
                 ELSE Append(valores, item))

\* flatMap(array): valores = []; percorrerArray(array) when array is an array
flatMap(array) ==
    IF array.t = "array" THEN Array(percorrerArray(array.v, <<>>)) ELSE Array(<<>>)

ItemValues == {Num(FALSE, <<1>>), Num(FALSE, <<2>>)}

\* the item lists of exactly n items, counting nested arrays and their items
RECURSIVE ItemLists(_)
ItemLists(n) ==
    IF n = 0 THEN {<<>>}
    ELSE {<<item>> \o rest : item \in ItemValues, rest \in ItemLists(n - 1)}
            \cup UNION {{<<Array(inner)>> \o rest :
                            inner \in ItemLists(m), rest \in ItemLists(n - 1 - m)} :
                        m \in 0..(n - 1)}

\* the array of flatMap's @example: [1, [2, [3, 4]], 5]
ExampleArray ==
    Array(<<Num(FALSE, <<1>>),
            Array(<<Num(FALSE, <<2>>),
                    Array(<<Num(FALSE, <<3>>), Num(FALSE, <<4>>)>>)>>),
            Num(FALSE, <<5>>)>>)

FlatMapInputs ==
    {Array(items) : items \in UNION {ItemLists(n) : n \in 0..MaxItems}}
        \cup {ExampleArray, Undefined, Null, Num(FALSE, <<7>>), Str(<<"a", "b">>)}

InitArray ==
    /\ value \in FlatMapInputs
    /\ factory = ""
    /\ result = NoResult
    /\ fn = ""
    /\ returned = Undefined
    /\ codigoPlacaMercosul = CodigoPlacaMercosulInicial

CallFlatMap ==
    /\ fn' = "flatMap"
    /\ returned' = flatMap(value)
    /\ UNCHANGED <<value, factory, result, codigoPlacaMercosul>>

NextArray == CallFlatMap

SpecArray == InitArray /\ [][NextArray]_vars

\* the non-array elements of a list of items, depth first and left to right
RECURSIVE DepthFirst(_)
DepthFirst(items) ==
    IF items = <<>> THEN <<>>
    ELSE (IF Head(items).t = "array" THEN DepthFirst(Head(items).v)
          ELSE <<Head(items)>>) \o DepthFirst(Tail(items))

\* how many non-array elements a list of items holds, at any depth
RECURSIVE LeafCount(_)
LeafCount(items) ==
    IF items = <<>> THEN 0
    ELSE (IF Head(items).t = "array" THEN LeafCount(Head(items).v) ELSE 1)
             + LeafCount(Tail(items))

\* C22: flatMap of an array nested to any depth is the sequence of its
\* non-array elements in depth-first left-to-right order, none lost and none
\* duplicated ([1, [2, [3, 4]], 5] gives [1, 2, 3, 4, 5]); a non-array gives [].
C22_FlatMapDepthFirst ==
    fn = "flatMap" =>
        /\ returned.t = "array"
        /\ value.t = "array" =>
              /\ returned.v = DepthFirst(value.v)
              /\ Len(returned.v) = LeafCount(value.v)
              /\ \A i \in 1..Len(returned.v) : returned.v[i].t # "array"
        /\ value.t # "array" => returned.v = <<>>

C22_Witness ==
    /\ fn = "flatMap"
    /\ value.t = "array"
    /\ Len(value.v) = 3
    /\ value.v[2].t = "array"
    /\ Len(value.v[2].v) = 2
    /\ value.v[2].v[2].t = "array"
    /\ value.v[3] = Num(FALSE, <<5>>)
    /\ returned.v = <<Num(FALSE, <<1>>), Num(FALSE, <<2>>), Num(FALSE, <<3>>),
                      Num(FALSE, <<4>>), Num(FALSE, <<5>>)>>

----------------------------------------------------------------------------
(* src/unnamed/part_000: CurrencyUtils *)

\* a number value with a fraction: v the digits of its whole part (<<0>> for
\* zero), frac the digits after the decimal point without trailing zeros
Decimal(neg, digits, frac) ==
    [t |-> "number", neg |-> neg, v |-> digits, frac |-> frac]

\* Number.prototype.toString of such a number: the shortest decimal text
toStringDecimal(n) ==
    (IF n.neg THEN <<"-">> ELSE <<>>)
        \o [i \in 1..Len(n.v) |-> DigitChars[n.v[i] + 1]]
        \o (IF n.frac = <<>> THEN <<>>
            ELSE <<".">> \o [i \in 1..Len(n.frac) |-> DigitChars[n.frac[i] + 1]])

\* String.prototype.replace(pattern, replacement) with a one-character string
\* pattern: the first occurrence only
replaceFirst(chars, pattern, replacement) ==
    IF \A i \in 1..Len(chars) : chars[i] # pattern THEN chars
    ELSE LET first == CHOOSE i \in 1..Len(chars) :
                          chars[i] = pattern /\ \A j \in 1..(i - 1) : chars[j] # pattern
         IN  SubSeq(chars, 1, first - 1) \o replacement
                 \o SubSeq(chars, first + 1, Len(chars))

\* String.prototype.split(separator) with a one-character separator
RECURSIVE split(_, _)
split(chars, separator) ==
    IF \A i \in 1..Len(chars) : chars[i] # separator THEN <<chars>>
    ELSE LET first == CHOOSE i \in 1..Len(chars) :
                          chars[i] = separator /\ \A j \in 1..(i - 1) : chars[j] # separator
         IN  <<SubSeq(chars, 1, first - 1)>>
                 \o split(SubSeq(chars, first + 1, Len(chars)), separator)

\* the longest prefix of digits
RECURSIVE DigitPrefix(_)
DigitPrefix(chars) ==
    IF chars # <<>> /\ IsDigit(Head(chars))
    THEN <<Head(chars)>> \o DigitPrefix(Tail(chars))
    ELSE <<>>

RECURSIVE dropLeadingZeros(_)
dropLeadingZeros(digits) ==
    IF Len(digits) > 1 /\ Head(digits) = 0 THEN dropLeadingZeros(Tail(digits))
    ELSE digits

RECURSIVE dropTrailingZeros(_)
dropTrailingZeros(digits) ==
    IF digits # <<>> /\ digits[Len(digits)] = 0
    THEN dropTrailingZeros(SubSeq(digits, 1, Len(digits) - 1))
    ELSE digits

\* parseFloat(string) on texts without exponent: leading white space skipped,
\* an optional sign, digits, an optional point and digits; the rest ignored;
\* NaN when no digit is read
parseFloat(chars) ==
    LET text == trimStart(chars)
        signed == text # <<>> /\ Head(text) \in {"-", "+"}
        body == IF signed THEN Tail(text) ELSE text
        whole == DigitPrefix(body)
        after == SubSeq(body, Len(whole) + 1, Len(body))
        fraction == IF after # <<>> /\ Head(after) = "."
                    THEN DigitPrefix(Tail(after)) ELSE <<>>
        digits == dropLeadingZeros(
                      IF whole = <<>> THEN <<0>>
                      ELSE [i \in 1..Len(whole) |-> DigitValue(whole[i])])
        frac == dropTrailingZeros([i \in 1..Len(fraction) |-> DigitValue(fraction[i])])
    IN  IF whole = <<>> /\ fraction = <<>> THEN NaN
        ELSE Decimal(signed /\ Head(text) = "-" /\ (digits # <<0>> \/ frac # <<>>),
                     digits, frac)

\* ToDecimal(input): null gives 0; a value without replace throws and the catch
\* block returns 0
ToDecimal(input) ==
    IF input.t = "null" THEN Decimal(FALSE, <<0>>, <<>>)
    ELSE IF input.t # "string" THEN Decimal(FALSE, <<0>>, <<>>)
    ELSE parseFloat(replaceFirst(replaceFirst(input.v, ".", <<>>), ",", <<".">>))

\* the truthiness of a value in a condition
truthy(val) ==
    CASE val.t \in {"null", "undefined", "NaN"} -> FALSE
      [] val.t = "number" -> ~(val.v = <<0>> /\ val.frac = <<>>)
      [] val.t = "string" -> val.v # <<>>
      [] val.t = "boolean" -> val.v
      [] OTHER -> TRUE

\* ToPrice(input): ret = input ? input.toString().replace('.', ',') : null,
\* and a '0' appended when one character follows the first comma
ToPrice(input) ==
    IF truthy(input) /\ input.t \in {"number", "string"}
    THEN LET ret == replaceFirst(IF input.t = "number" THEN toStringDecimal(input)
                                 ELSE input.v, ".", <<",">>)
             decArr == split(ret, ",")
         IN  IF Len(decArr) > 1 /\ Len(decArr[2]) = 1
             THEN Str(ret \o <<"0">>)
             ELSE Str(ret)
    ELSE Null

Fractions == {<<>>, <<5>>, <<5, 6>>, <<0, 5>>, <<1, 2, 5>>}

PriceInputs ==
    {Decimal(neg, DigitsOf(n), frac) :
        neg \in BOOLEAN, n \in 1..MaxInteiro, frac \in Fractions}
        \cup {Decimal(neg, <<0>>, frac) : neg \in BOOLEAN, frac \in Fractions \ {<<>>}}
        \cup {Decimal(FALSE, DigitsOf(n), frac) :
                n \in {1000, 1234, 1234567}, frac \in Fractions}
        \cup {Decimal(FALSE, <<0>>, <<>>), Null}

\* texts with dots between groups of three digits and a comma before the cents
FirstGroups == {<<"1">>, <<"1", "2">>, <<"1", "0", "0">>, <<"9", "9", "9">>}
ThousandGroups == {<<".", "2", "3", "4">>, <<".", "0", "0", "0">>, <<".", "5", "6", "7">>}
Cents == {<<>>, <<",", "5">>, <<",", "5", "6">>, <<",", "0", "0">>}

RECURSIVE GroupRuns(_)
GroupRuns(n) ==
    IF n = 0 THEN {<<>>}
    ELSE {group \o rest : group \in ThousandGroups, rest \in GroupRuns(n - 1)}

DecimalInputs ==
    {Str(first \o groups \o cents) :
        first \in FirstGroups,
        groups \in UNION {GroupRuns(n) : n \in 0..MaxGroups},
        cents \in Cents}
        \cup {Str(<<>>), Str(<<"a">>), Null}

InitCurrency ==
    /\ value \in PriceInputs \cup DecimalInputs
    /\ factory = ""
    /\ result = NoResult
    /\ fn = ""
    /\ returned = Undefined
    /\ codigoPlacaMercosul = CodigoPlacaMercosulInicial

CallToDecimal ==
    /\ fn' = "ToDecimal"
    /\ returned' = ToDecimal(value)
    /\ UNCHANGED <<value, factory, result, codigoPlacaMercosul>>

CallToPrice ==
    /\ fn' = "ToPrice"
    /\ returned' = ToPrice(value)
    /\ UNCHANGED <<value, factory, result, codigoPlacaMercosul>>

NextCurrency ==
    \/ CallToDecimal
    \/ CallToPrice

SpecCurrency == InitCurrency /\ [][NextCurrency]_vars

\* the digits of a whole part with a dot before every group of three
RECURSIVE Grouped(_)
Grouped(chars) ==
    IF Len(chars) <= 3 THEN chars
    ELSE Grouped(SubSeq(chars, 1, Len(chars) - 3)) \o <<".">>
             \o SubSeq(chars, Len(chars) - 2, Len(chars))

\* a fraction of up to two digits written as two decimal digits
TwoDecimals(frac) ==
    DecimalChars(frac) \o [i \in 1..(2 - Len(frac)) |-> "0"]

\* C23: ToPrice of a non-null number is its price text with a comma as decimal
\* separator and two decimal digits (1234.56 gives '1.234,56', 100 gives
\* '100,00'); one decimal digit gets a trailing zero; ToPrice(null) is null.
C23_PriceText ==
    fn = "ToPrice" =>
        /\ value.t = "null" => returned.t = "null"
        /\ value.t = "number" =>
              /\ returned.t = "string"
              /\ Len(returned.v) >= 4
              /\ returned.v[Len(returned.v) - 2] = ","
              /\ returned.v[Len(returned.v) - 1] \in Numerals
              /\ returned.v[Len(returned.v)] \in Numerals
              /\ Len(value.frac) <= 2 =>
                    returned.v = (IF value.neg THEN <<"-">> ELSE <<>>)
                                     \o Grouped(DecimalChars(value.v))
                                     \o <<",">> \o TwoDecimals(value.frac)

\* the text before the first comma, and the text after it
BeforeComma(chars) ==
    IF \A i \in 1..Len(chars) : chars[i] # "," THEN chars
    ELSE SubSeq(chars, 1, (CHOOSE i \in 1..Len(chars) :
                               chars[i] = "," /\ \A j \in 1..(i - 1) : chars[j] # ",") - 1)

AfterComma(chars) ==
    IF \A i \in 1..Len(chars) : chars[i] # "," THEN <<>>
    ELSE SubSeq(chars, Len(BeforeComma(chars)) + 2, Len(chars))

RECURSIVE WithoutTrailingZeros(_)
WithoutTrailingZeros(chars) ==
    IF chars # <<>> /\ chars[Len(chars)] = "0"
    THEN WithoutTrailingZeros(SubSeq(chars, 1, Len(chars) - 1))
    ELSE chars

\* digits in dot-separated groups of three after a first group of one to three
\* digits that does not start with a zero, then optionally a comma and digits
MoneyText(chars) ==
    LET whole == BeforeComma(chars)
    IN  /\ whole # <<>>
        /\ whole[1] \in Numerals \ {"0"}
        /\ whole = Grouped(Stripped(whole))
        /\ \A i \in 1..Len(AfterComma(chars)) : AfterComma(chars)[i] \in Numerals

\* C24: ToDecimal of a text in which dots separate thousands and a comma the
\* decimals, with any number of thousand groups, is the number read after
\* removing every dot and taking the comma as decimal point ('1.234,56' gives
\* 1234.56, '100,00' gives 100); ToDecimal(null) is 0.
C24_DecimalOfMoneyText ==
    fn = "ToDecimal" =>
        /\ value.t = "null" =>
              (returned.t = "number" /\ returned.v = <<0>> /\ returned.frac = <<>>)
        /\ (value.t = "string" /\ MoneyText(value.v)) =>
              /\ returned.t = "number"
              /\ ~returned.neg
              /\ DecimalChars(returned.v) = Stripped(BeforeComma(value.v))
              /\ DecimalChars(returned.frac) = WithoutTrailingZeros(AfterComma(value.v))

----------------------------------------------------------------------------
(* src/src/date/date-utils.ts: DateUtils.toEndOfDay.  A Date is held by its  *)
(* local-time fields, month counted from 0 as getMonth does.                *)

DateValue(year, month, date, hours, minutes, seconds, ms) ==
    [t |-> "Date", year |-> year, month |-> month, date |-> date,
     hours |-> hours, minutes |-> minutes, seconds |-> seconds, ms |-> ms]

\* a Date whose time value is NaN
InvalidDate == [t |-> "InvalidDate"]

isLeapYear(year) == (year % 4 = 0 /\ year % 100 # 0) \/ year % 400 = 0

daysInMonth(year, month) ==
    IF month = 1 THEN (IF isLeapYear(year) THEN 29 ELSE 28)
    ELSE IF month \in {3, 5, 8, 10} THEN 30
    ELSE 31

\* new Date(year, month, date, hours, minutes, seconds, ms) with date >= 1: a
\* date past the end of the month runs into the following months
RECURSIVE newDate(_, _, _, _, _, _, _)
newDate(year, month, date, hours, minutes, seconds, ms) ==
    IF date > daysInMonth(year, month)
    THEN newDate(IF month = 11 THEN year + 1 ELSE year,
                 IF month = 11 THEN 0 ELSE month + 1,
                 date - daysInMonth(year, month), hours, minutes, seconds, ms)
    ELSE DateValue(year, month, date, hours, minutes, seconds, ms)

\* toEndOfDay(myDate): new Date(getFullYear(), getMonth(), getDate() + 1,
\* 23, 59, 59, 999); the getters of an invalid Date give NaN and so does the
\* constructor
toEndOfDay(myDate) ==
    IF myDate.t = "InvalidDate" THEN InvalidDate
    ELSE newDate(myDate.year, myDate.month, myDate.date + 1, 23, 59, 59, 999)

DateInputs ==
    UNION {{DateValue(year, month, date, time[1], time[2], time[3], time[4]) :
                date \in 1..daysInMonth(year, month),
                time \in {<<0, 0, 0, 0>>, <<12, 30, 15, 500>>, <<23, 59, 59, 999>>}} :
           year \in {1900, 2000, 2023, 2024}, month \in 0..11}
        \cup {InvalidDate}

InitDate ==
    /\ value \in DateInputs
    /\ factory = ""
    /\ result = NoResult
    /\ fn = ""
    /\ returned = Undefined
    /\ codigoPlacaMercosul = CodigoPlacaMercosulInicial

CallToEndOfDay ==
    /\ fn' = "toEndOfDay"
    /\ returned' = toEndOfDay(value)
    /\ UNCHANGED <<value, factory, result, codigoPlacaMercosul>>

NextDate == CallToEndOfDay

SpecDate == InitDate /\ [][NextDate]_vars

\* C25: toEndOfDay of a valid date d has the year, month and day of d and the
\* time 23:59:59.999.
C25_EndOfSameDay ==
    (fn = "toEndOfDay" /\ value.t = "Date") =>
        /\ returned.t = "Date"
        /\ returned.year = value.year
        /\ returned.month = value.month
        /\ returned.date = value.date
        /\ returned.hours = 23
        /\ returned.minutes = 59
        /\ returned.seconds = 59
        /\ returned.ms = 999

----------------------------------------------------------------------------
(* The reverse lookup of the plate table (checked under SpecPlaca) *)

\* C26 as stated: the lookup failure cannot occur: for every input matching
\* the unified pattern the reverse lookup of the letter at position 4 finds a
\* digit, and formatarPlaca returns a legacy-pattern plate.
C26_LookupNeverFails ==
    (fn = "formatarPlaca" /\ value.t = "string" /\ Unified(value.v)) =>
        /\ gerarPlacaMercosul(value.v, 4).t = "return"
        /\ returned.t = "string"
        /\ Legacy(returned.v)

\* C26 amended: for an input matching the unified pattern the reverse lookup
\* finds a digit exactly when the letter at position 4 is one of A..J, and then
\* formatarPlaca returns a legacy-pattern plate; for K..Z the lookup fails,
\* the lookup-failure branch is reached and formatarPlaca returns
\* 'Erro na formatação', which is no plate.
C26_LookupFailsOutsideTable ==
    (fn = "formatarPlaca" /\ value.t = "string" /\ Unified(value.v)) =>
        /\ returned.t = "string"
        /\ (gerarPlacaMercosul(value.v, 4).t = "return") <=> InTable(value.v[5])
        /\ InTable(value.v[5]) => Legacy(returned.v)
        /\ ~InTable(value.v[5]) =>
              /\ returned.v = FormattingErrorText
              /\ ~Legacy(returned.v)

C26_Witness ==
    /\ fn = "formatarPlaca"
    /\ value.t = "string"
    /\ Unified(value.v)
    /\ value.v[5] = "S"
    /\ gerarPlacaMercosul(value.v, 4).t = "throw"
    /\ returned.v = FormattingErrorText

====
